---- MODULE Spec2Model ----
(***************************************************************************)
(* Hand Spray AR: the SprayCanvas component of src/App.tsx.                *)
(*                                                                         *)
(* The component mounts a MediaPipe hand tracker and a camera, creates a   *)
(* p5 sketch once the initialisation promise resolves, and paints a spray  *)
(* of particles at the pinch point of the tracked hand on every frame.     *)
(*                                                                         *)
(* Numbers: JavaScript numbers are modelled as exact rationals <<n, d>>    *)
(* (d > 0, lowest terms); Math.sqrt is exact on perfect squares and is     *)
(* otherwise rounded down to 1/SqrtPrec.                                   *)
(***************************************************************************)
EXTENDS Integers, Sequences, FiniteSets, TLC

VARIABLES
    HandsCls,           \* HandsPkg.Hands || HandsPkg.default?.Hands is truthy
    CameraCls,          \* CameraUtilsPkg.Camera || ...default?.Camera is truthy
    lifecycle,          \* "rendered" | "mounted" | "unmounted" (the main effect)
    thenQueued,         \* the initMediaPipe().then callback waits in the microtask queue
    hands,              \* let hands:  "undefined" | "open" | "closed"
    camera,             \* let camera: "undefined" | "started" | "stopped"
    myP5,               \* let myP5:   "undefined" | "running" | "removed"
    errorLog,           \* number of console.error calls
    containerRef,       \* containerRef.current is attached
    handResults,        \* handResultsRef.current
    currentColorIndex,  \* React state currentColorIndex
    colorIndexRef,      \* colorIndexRef.current
    size,               \* <<p.width, p.height>>
    canvas,             \* the draw calls accumulated on the canvas since it was last cleared
    frame,              \* "none", or the draw calls p.draw issued in the step just taken
    pointer,            \* the swatch index under the pressed pointer, -1 when there is none
    event,              \* the key or swatch event handled by the step just taken
    cycleClicks,        \* p.mousePressed calls since mount with no swatch selected; -1: not counted
    handSizes,          \* intensity-mapping harness: the handSize inputs
    intensity,          \* intensity-mapping harness: the mapped parameters
    pinchTips,          \* emission-point harness: <<thumbTip, indexTip, width, height>>
    emissionPoint       \* emission-point harness: <<sprayX, sprayY>>

vars == <<HandsCls, CameraCls, lifecycle, thenQueued, hands, camera, myP5, errorLog,
          containerRef, handResults, currentColorIndex, colorIndexRef, size, canvas,
          frame, pointer, event, cycleClicks, handSizes, intensity, pinchTips,
          emissionPoint>>

appVars == <<HandsCls, CameraCls, lifecycle, thenQueued, hands, camera, myP5, errorLog,
             containerRef, handResults, currentColorIndex, colorIndexRef, size, canvas,
             frame, pointer, event, cycleClicks>>

harness == <<handSizes, intensity, pinchTips, emissionPoint>>

----------------------------------------------------------------------------
(* Bounds of the model *)

\* Math.sqrt of a non-square is rounded down to a multiple of 1/SqrtPrec
SqrtPrec == 10

\* frames that paint onto the canvas between two clears
MaxPaintedFrames == 2

\* Space presses in a row
MaxClears == 2

\* p.mousePressed calls counted since mount
MaxCycleClicks == 15

\* the intensity-mapping harness tries handSize = k * 25/2 for k in 0..MaxHandK
MaxHandK == 32

----------------------------------------------------------------------------
(* Rational arithmetic *)

RECURSIVE GCD(_, _)
GCD(a, b) == IF b = 0 THEN a ELSE GCD(b, a % b)

Abs(a) == IF a < 0 THEN -a ELSE a

Rat(n, d) ==
    LET g == GCD(Abs(n), Abs(d))
        s == IF d < 0 THEN -1 ELSE 1
    IN  <<(s * n) \div g, (s * d) \div g>>

Num(k) == <<k, 1>>

RAdd(a, b) == Rat(a[1] * b[2] + b[1] * a[2], a[2] * b[2])
RSub(a, b) == Rat(a[1] * b[2] - b[1] * a[2], a[2] * b[2])
RMul(a, b) == Rat(a[1] * b[1], a[2] * b[2])
RDiv(a, b) == Rat(a[1] * b[2], a[2] * b[1])
RLt(a, b) == a[1] * b[2] < b[1] * a[2]
RLe(a, b) == a[1] * b[2] <= b[1] * a[2]
RMin(a, b) == IF RLt(b, a) THEN b ELSE a
RMax(a, b) == IF RLt(a, b) THEN b ELSE a
RCeil(a) == -((-a[1]) \div a[2])
\* Math.round: the nearest integer, halves rounded up
RRound(a) == (2 * a[1] + a[2]) \div (2 * a[2])

\* the largest r in lo..hi with r * r <= n (lo * lo <= n is given)
RECURSIVE ISqrtIn(_, _, _)
ISqrtIn(n, lo, hi) ==
    IF lo = hi THEN lo
    ELSE LET mid == (lo + hi + 1) \div 2
         IN  IF mid * mid <= n THEN ISqrtIn(n, mid, hi) ELSE ISqrtIn(n, lo, mid - 1)

ISqrt(n) == ISqrtIn(n, 0, 46340)

\* Math.sqrt
Sqrt(q) ==
    LET rn == ISqrt(q[1])
        rd == ISqrt(q[2])
    IN  IF rn * rn = q[1] /\ rd * rd = q[2]
        THEN Rat(rn, rd)
        ELSE Rat(ISqrt(q[1] * q[2] * SqrtPrec * SqrtPrec), q[2] * SqrtPrec)

----------------------------------------------------------------------------
(* p5 numeric helpers, as called by p.draw *)

\* p.constrain(n, low, high) = Math.max(Math.min(n, high), low)
Constrain(n, low, high) == RMax(RMin(n, high), low)

\* p.map(n, start1, stop1, start2, stop2)
Map(n, start1, stop1, start2, stop2) ==
    RAdd(RMul(RDiv(RSub(n, start1), RSub(stop1, start1)), RSub(stop2, start2)), start2)

----------------------------------------------------------------------------
(* The intensity mapping of p.draw *)

\* const normalizedSize = p.constrain(handSize, 50, 300)
NoConstrain(handSize) == handSize
NormalizedSize(handSize) == Constrain(handSize, Num(50), Num(300))

\* const factor = p.map(normalizedSize, 50, 300, 1, 0)
FactorNotInverted(normalizedSize) == Map(normalizedSize, Num(50), Num(300), Num(0), Num(1))
Factor(normalizedSize) == Map(normalizedSize, Num(50), Num(300), Num(1), Num(0))

SpreadRadius(factor) == Map(factor, Num(0), Num(1), Num(10), Num(60))
ParticleCountOff(factor) == Map(factor, Num(0), Num(1), Num(5), Num(45))
ParticleCount(factor) == Map(factor, Num(0), Num(1), Num(5), Num(40))
ParticleSizeBase(factor) == Map(factor, Num(0), Num(1), Num(2), Num(6))
Opacity(factor) == Map(factor, Num(0), Num(1), Num(50), Num(255))

\* the five values p.draw derives from handSize
Intensity(handSize) ==
    LET factor == Factor(NormalizedSize(handSize))
    IN  [factor           |-> factor,
         spreadRadius     |-> SpreadRadius(factor),
         particleCount    |-> ParticleCount(factor),
         particleSizeBase |-> ParticleSizeBase(factor),
         opacity          |-> Opacity(factor)]

----------------------------------------------------------------------------
(* Landmark results and the body of p.draw *)

PALETTE == <<"#FF0055", "#00FF99", "#00CCFF", "#FFFF00", "#FF6600", "#CC00FF", "#FFFFFF">>

\* handResultsRef.current = null
NullResults == [isNull |-> TRUE, hasField |-> FALSE, multiHandLandmarks |-> <<>>]

\* a Results object whose multiHandLandmarks is undefined (hasField = FALSE) or an array
Results(hasField, lms) == [isNull |-> FALSE, hasField |-> hasField, multiHandLandmarks |-> lms]

\* results && results.multiHandLandmarks && results.multiHandLandmarks.length > 0
HasHand(results) ==
    /\ ~results.isNull
    /\ results.hasField
    /\ Len(results.multiHandLandmarks) > 0

Mark(kind, x, y, col, alpha, sd, dLo, dHi) ==
    [kind |-> kind, x |-> x, y |-> y, col |-> col, alpha |-> alpha,
     sd |-> sd, dLo |-> dLo, dHi |-> dHi]

\* Math.sqrt(dx * dx + dy * dy) of two landmarks scaled to the canvas
ScreenDistance(a, b, width, height) ==
    LET distX == RMul(RSub(a.x, b.x), Num(width))
        distY == RMul(RSub(a.y, b.y), Num(height))
    IN  Sqrt(RAdd(RMul(distX, distX), RMul(distY, distY)))

SprayXUnmirrored(thumbTip, indexTip, width) ==
    RMul(RDiv(RAdd(thumbTip.x, indexTip.x), Num(2)), Num(width))
SprayX(thumbTip, indexTip, width) ==
    RMul(RSub(Num(1), RDiv(RAdd(thumbTip.x, indexTip.x), Num(2))), Num(width))

SprayY(thumbTip, indexTip, height) ==
    RMul(RDiv(RAdd(thumbTip.y, indexTip.y), Num(2)), Num(height))

\* if (pinchDistance < 60)
PinchedInclusive(pinchDistance) == RLe(pinchDistance, Num(60))
Pinched(pinchDistance) == RLt(pinchDistance, Num(60))

\* for (let i = 0; i < particleCount; i++) p.circle(px, py, pSize)
RECURSIVE ParticleLoop(_, _, _)
ParticleLoop(i, particleCount, particle) ==
    IF RLt(Num(i), particleCount)
    THEN <<particle>> \o ParticleLoop(i + 1, particleCount, particle)
    ELSE <<>>

\* the loop, had it drawn Math.round(particleCount) circles
RoundedParticles(particleCount, particle) ==
    [i \in 1..RRound(particleCount) |-> particle]
Particles(particleCount, particle) == ParticleLoop(0, particleCount, particle)

\* the cursor ring and the pinch indicator
Cursor(sprayX, sprayY, pinchDistance, colorIndex) ==
    <<Mark("ring", sprayX, sprayY, "255", Num(150), Num(0), Num(15), Num(15))>>
    \o (IF Pinched(pinchDistance)
        THEN <<Mark("dot", sprayX, sprayY, PALETTE[colorIndex + 1], Num(255),
                    Num(0), Num(8), Num(8))>>
        ELSE <<>>)

\* the spray: the particles of one frame. A particle's Gaussian offset and its
\* uniform size are not drawn here: the mark records the centre, the standard
\* deviation and the size range the circle was sampled from.
Spray(sprayX, sprayY, pinchDistance, handSize, colorIndex) ==
    IF Pinched(pinchDistance)
    THEN LET in == Intensity(handSize)
             particle ==
                 Mark("particle", sprayX, sprayY, PALETTE[colorIndex + 1], in.opacity,
                      RDiv(in.spreadRadius, Num(3)),
                      RMul(in.particleSizeBase, Rat(1, 2)),
                      RMul(in.particleSizeBase, Rat(3, 2)))
         IN  Particles(in.particleCount, particle)
    ELSE <<>>

\* the draw calls of one p.draw
DrawCallsIdleCursor(results, width, height, colorIndex) ==
    IF HasHand(results)
    THEN LET landmarks == results.multiHandLandmarks[1]
             thumbTip == landmarks[4]
             indexTip == landmarks[8]
             wrist == landmarks[0]
             middleMCP == landmarks[9]
             pinchDistance == ScreenDistance(thumbTip, indexTip, width, height)
             handSize == ScreenDistance(wrist, middleMCP, width, height)
             sprayX == SprayX(thumbTip, indexTip, width)
             sprayY == SprayY(thumbTip, indexTip, height)
         IN  Cursor(sprayX, sprayY, pinchDistance, colorIndex)
             \o Spray(sprayX, sprayY, pinchDistance, handSize, colorIndex)
    ELSE <<Mark("ring", Rat(width, 2), Rat(height, 2), "255", Num(150), Num(0),
                Num(15), Num(15))>>
DrawCalls(results, width, height, colorIndex) ==
    IF HasHand(results)
    THEN LET landmarks == results.multiHandLandmarks[1]
             thumbTip == landmarks[4]
             indexTip == landmarks[8]
             wrist == landmarks[0]
             middleMCP == landmarks[9]
             pinchDistance == ScreenDistance(thumbTip, indexTip, width, height)
             handSize == ScreenDistance(wrist, middleMCP, width, height)
             sprayX == SprayX(thumbTip, indexTip, width)
             sprayY == SprayY(thumbTip, indexTip, height)
         IN  Cursor(sprayX, sprayY, pinchDistance, colorIndex)
             \o Spray(sprayX, sprayY, pinchDistance, handSize, colorIndex)
    ELSE <<>>

----------------------------------------------------------------------------
(* Inputs *)

Pt(xc, yc) == [x |-> Rat(xc, 100), y |-> Rat(yc, 100)]

\* landmarks[0] wrist, landmarks[4] thumb tip, landmarks[8] index tip,
\* landmarks[9] middle finger MCP (the other 17 landmarks are never read)
Hand(thumbTip, indexTip, wrist, middleMCP) ==
    (0 :> wrist) @@ (4 :> thumbTip) @@ (8 :> indexTip) @@ (9 :> middleMCP)

\* on 1000x800: pinch sqrt(50^2 + 32^2) = 59.3.., hand size 290;
\* on 1100x500: pinch sqrt(55^2 + 20^2) = 58.5.., hand size 319
PinchedHand == Hand(Pt(50, 50), Pt(45, 46), Pt(60, 80), Pt(31, 80))
\* on 1000x800: pinch exactly 60; on 1100x500: pinch 66
ThresholdHand == Hand(Pt(50, 50), Pt(44, 50), Pt(62, 80), Pt(50, 60))

LandmarkUpdates ==
    {Results(FALSE, <<>>), Results(TRUE, <<>>),
     Results(TRUE, <<PinchedHand>>), Results(TRUE, <<ThresholdHand>>)}

\* window.innerWidth, window.innerHeight
WindowSizes == {<<1000, 800>>, <<1100, 500>>}

\* the canvas p5 creates when setup creates none
DefaultSize == <<100, 100>>

Keys == {" ", "c"}

\* no key or swatch event in the step just taken
NoEvent == [kind |-> "none", n |-> 0, was |-> 0]

NoFrame == [ran |-> FALSE, calls |-> <<>>]
Frame(calls) == [ran |-> TRUE, calls |-> calls]

IsRing(m) == m.kind = "ring"
PaintedFrames(cv) == Len(SelectSeq(cv, IsRing))

----------------------------------------------------------------------------
(* The component *)

Init ==
    /\ HandsCls \in BOOLEAN
    /\ CameraCls \in BOOLEAN
    /\ lifecycle = "rendered"
    /\ thenQueued = FALSE
    /\ hands = "undefined"
    /\ camera = "undefined"
    /\ myP5 = "undefined"
    /\ errorLog = 0
    /\ containerRef = TRUE
    /\ handResults = NullResults
    /\ currentColorIndex = 0
    /\ colorIndexRef = 0
    /\ size = <<0, 0>>
    /\ canvas = <<>>
    /\ frame = NoFrame
    /\ pointer = -1
    /\ event = NoEvent
    /\ cycleClicks = -1
    /\ handSizes = <<>>
    /\ intensity = <<>>
    /\ pinchTips = <<>>
    /\ emissionPoint = <<>>

\* initMediaPipe: videoRef.current is attached whenever an effect runs (the
\* video element is rendered unconditionally), and the function has no await,
\* so it runs to its end inside the effect.
InitNoGuard ==
    /\ hands' = "open"
    /\ camera' = "started"
    /\ UNCHANGED errorLog
InitMediaPipe ==
    IF ~HandsCls \/ ~CameraCls
    THEN /\ errorLog' = errorLog + 1
         /\ UNCHANGED <<hands, camera>>
    ELSE /\ hands' = "open"
         /\ camera' = "started"
         /\ UNCHANGED errorLog

\* the two effects at mount: the colour sync, then initMediaPipe().then(...)
Effect ==
    /\ lifecycle = "rendered"
    /\ lifecycle' = "mounted"
    /\ colorIndexRef' = currentColorIndex
    /\ InitMediaPipe
    /\ thenQueued' = TRUE
    /\ frame' = NoFrame
    /\ event' = NoEvent
    /\ UNCHANGED <<HandsCls, CameraCls, myP5, containerRef, handResults,
                   currentColorIndex, size, canvas, harness, pointer, cycleClicks>>

\* p.setup, run by new p5(sketch)
Setup ==
    /\ \E s \in (IF containerRef THEN WindowSizes ELSE {DefaultSize}) : size' = s
    /\ canvas' = <<>>

\* the .then callback of initMediaPipe(): a microtask, so it runs before any
\* camera frame, animation frame or input event
Then ==
    /\ thenQueued
    /\ thenQueued' = FALSE
    /\ myP5' = "running"
    /\ Setup
    /\ frame' = NoFrame
    /\ event' = NoEvent
    /\ UNCHANGED <<HandsCls, CameraCls, lifecycle, hands, camera, errorLog, containerRef,
                   handResults, currentColorIndex, colorIndexRef, harness, pointer, cycleClicks>>

\* the effect's cleanup, run at unmount; React detaches the refs before it.
\* myP5.remove() takes the canvas element away.
CleanupLeak ==
    /\ lifecycle = "mounted"
    /\ lifecycle' = "unmounted"
    /\ containerRef' = FALSE
    /\ myP5' = (IF myP5 = "running" THEN "removed" ELSE myP5)
    /\ canvas' = (IF myP5 = "running" THEN <<>> ELSE canvas)
    /\ hands' = (IF hands = "open" THEN "closed" ELSE hands)
    /\ pointer' = -1
    /\ frame' = NoFrame
    /\ event' = NoEvent
    /\ UNCHANGED <<HandsCls, CameraCls, thenQueued, camera, errorLog, handResults,
                   currentColorIndex, colorIndexRef, size, harness, cycleClicks>>
Cleanup ==
    /\ lifecycle = "mounted"
    /\ lifecycle' = "unmounted"
    /\ containerRef' = FALSE
    /\ myP5' = (IF myP5 = "running" THEN "removed" ELSE myP5)
    /\ canvas' = (IF myP5 = "running" THEN <<>> ELSE canvas)
    /\ hands' = (IF hands = "open" THEN "closed" ELSE hands)
    /\ camera' = (IF camera = "started" THEN "stopped" ELSE camera)
    /\ pointer' = -1
    /\ frame' = NoFrame
    /\ event' = NoEvent
    /\ UNCHANGED <<HandsCls, CameraCls, thenQueued, errorLog, handResults,
                   currentColorIndex, colorIndexRef, size, harness, cycleClicks>>

\* the camera's onFrame sends the video image to hands, which answers through
\* hands.onResults((results) => { handResultsRef.current = results })
OnResultsFirstWins(results) ==
    /\ hands = "open"
    /\ camera = "started"
    /\ ~thenQueued
    /\ handResults' = (IF handResults.isNull THEN results ELSE handResults)
    /\ frame' = NoFrame
    /\ event' = NoEvent
    /\ UNCHANGED <<HandsCls, CameraCls, lifecycle, thenQueued, hands, camera, myP5,
                   errorLog, containerRef, currentColorIndex, colorIndexRef, size,
                   canvas, harness, pointer, cycleClicks>>
OnResultsDrawing(results) ==
    /\ hands = "open"
    /\ camera = "started"
    /\ ~thenQueued
    /\ handResults' = results
    /\ canvas' = canvas \o DrawCalls(results, size[1], size[2], colorIndexRef)
    /\ PaintedFrames(canvas') <= MaxPaintedFrames
    /\ frame' = NoFrame
    /\ event' = NoEvent
    /\ UNCHANGED <<HandsCls, CameraCls, lifecycle, thenQueued, hands, camera, myP5,
                   errorLog, containerRef, currentColorIndex, colorIndexRef, size,
                   harness, pointer, cycleClicks>>
OnResults(results) ==
    /\ hands = "open"
    /\ camera = "started"
    /\ ~thenQueued
    /\ handResults' = results
    /\ frame' = NoFrame
    /\ event' = NoEvent
    /\ UNCHANGED <<HandsCls, CameraCls, lifecycle, thenQueued, hands, camera, myP5,
                   errorLog, containerRef, currentColorIndex, colorIndexRef, size,
                   canvas, harness, pointer, cycleClicks>>

\* p.draw, once per animation frame of a running sketch
DrawClearing ==
    LET calls == DrawCalls(handResults, size[1], size[2], colorIndexRef)
    IN  /\ myP5 = "running"
        /\ canvas' = calls
        /\ frame' = Frame(calls)
        /\ event' = NoEvent
        /\ UNCHANGED <<HandsCls, CameraCls, lifecycle, thenQueued, hands, camera, myP5,
                       errorLog, containerRef, handResults, currentColorIndex,
                       colorIndexRef, size, harness, pointer, cycleClicks>>
DrawConsuming ==
    LET calls == DrawCalls(handResults, size[1], size[2], colorIndexRef)
    IN  /\ myP5 = "running"
        /\ calls # <<>> => PaintedFrames(canvas) < MaxPaintedFrames
        /\ canvas' = canvas \o calls
        /\ frame' = Frame(calls)
        /\ event' = NoEvent
        /\ handResults' = NullResults
        /\ UNCHANGED <<HandsCls, CameraCls, lifecycle, thenQueued, hands, camera, myP5,
                       errorLog, containerRef, currentColorIndex,
                       colorIndexRef, size, harness, pointer, cycleClicks>>
Draw ==
    LET calls == DrawCalls(handResults, size[1], size[2], colorIndexRef)
    IN  /\ myP5 = "running"
        /\ calls # <<>> => PaintedFrames(canvas) < MaxPaintedFrames
        /\ canvas' = canvas \o calls
        /\ frame' = Frame(calls)
        /\ event' = NoEvent
        /\ UNCHANGED <<HandsCls, CameraCls, lifecycle, thenQueued, hands, camera, myP5,
                       errorLog, containerRef, handResults, currentColorIndex,
                       colorIndexRef, size, harness, pointer, cycleClicks>>

\* p.windowResized: p.resizeCanvas clears the canvas and redraws at once
WindowResized(s) ==
    LET calls == DrawCalls(handResults, s[1], s[2], colorIndexRef)
    IN  /\ myP5 = "running"
        /\ s # size
        /\ size' = s
        /\ canvas' = calls
        /\ frame' = Frame(calls)
        /\ event' = NoEvent
        /\ UNCHANGED <<HandsCls, CameraCls, lifecycle, thenQueued, hands, camera, myP5,
                       errorLog, containerRef, handResults, currentColorIndex,
                       colorIndexRef, harness, pointer, cycleClicks>>

\* (prev) => (prev + 1) % PALETTE.length
NextColorNoWrap(prev) == prev + 1
NextColorSkipping(prev) == (prev + 2) % Len(PALETTE)
NextColorIndex(prev) == (prev + 1) % Len(PALETTE)

\* the swatches of the palette UI, by index
Swatches == 0..(Len(PALETTE) - 1)

\* p.mousePressed: setCurrentColorIndex((prev) => (prev + 1) % PALETTE.length).
\* p5 listens for mousedown on the window, so a press on a swatch (target) is
\* handled here as well; target = -1 is a press anywhere else.
\* React runs the effects of the previous commit before it renders the next
\* update, and drops the update of an unmounted component.
MousePressed(target) ==
    /\ myP5 = "running"
    /\ pointer = -1
    /\ target # -1 => lifecycle = "mounted"
    /\ colorIndexRef = currentColorIndex
    /\ cycleClicks < MaxCycleClicks
    /\ currentColorIndex' =
           (IF lifecycle = "mounted"
            THEN NextColorIndex(currentColorIndex)
            ELSE currentColorIndex)
    /\ pointer' = target
    /\ cycleClicks' = (IF cycleClicks = -1 THEN -1 ELSE cycleClicks + 1)
    /\ frame' = NoFrame
    /\ event' = NoEvent
    /\ UNCHANGED <<HandsCls, CameraCls, lifecycle, thenQueued, hands, camera, myP5,
                   errorLog, containerRef, handResults, colorIndexRef, size, canvas,
                   harness>>

\* onClick={() => setCurrentColorIndex(index)} of the swatch the pointer went
\* down on: the click event follows the mousedown that p.mousePressed handled
SwatchClickCycling ==
    /\ pointer # -1
    /\ lifecycle = "mounted"
    /\ colorIndexRef = currentColorIndex
    /\ currentColorIndex' = NextColorIndex(pointer)
    /\ pointer' = -1
    /\ event' = [kind |-> "select", n |-> pointer, was |-> 0]
    /\ cycleClicks' = -1
    /\ frame' = NoFrame
    /\ UNCHANGED <<HandsCls, CameraCls, lifecycle, thenQueued, hands, camera, myP5,
                   errorLog, containerRef, handResults, colorIndexRef, size, canvas,
                   harness>>
SwatchClick ==
    /\ pointer # -1
    /\ lifecycle = "mounted"
    /\ colorIndexRef = currentColorIndex
    /\ currentColorIndex' = pointer
    /\ pointer' = -1
    /\ event' = [kind |-> "select", n |-> pointer, was |-> 0]
    /\ cycleClicks' = -1
    /\ frame' = NoFrame
    /\ UNCHANGED <<HandsCls, CameraCls, lifecycle, thenQueued, hands, camera, myP5,
                   errorLog, containerRef, handResults, colorIndexRef, size, canvas,
                   harness>>

\* useEffect(() => { colorIndexRef.current = currentColorIndex }, [currentColorIndex])
SyncColorRef ==
    /\ lifecycle = "mounted"
    /\ colorIndexRef # currentColorIndex
    /\ colorIndexRef' = currentColorIndex
    /\ frame' = NoFrame
    /\ event' = NoEvent
    /\ UNCHANGED <<HandsCls, CameraCls, lifecycle, thenQueued, hands, camera, myP5,
                   errorLog, containerRef, handResults, currentColorIndex, size, canvas,
                   harness, pointer, cycleClicks>>

\* the Space presses in a row that end with the step just taken
ClearsInARow == IF event.kind = "clear" THEN event.n ELSE 0

\* p.keyPressed: if (p.key === ' ') p.clear()
KeyPressedUndo(key) ==
    /\ myP5 = "running"
    /\ key = " " => ClearsInARow < MaxClears
    /\ canvas' = (IF key = " " /\ canvas # <<>>
                  THEN SubSeq(canvas, 1, Len(canvas) - 1) ELSE canvas)
    /\ frame' = NoFrame
    /\ event' = (IF key = " "
                 THEN [kind |-> "clear", n |-> ClearsInARow + 1,
                       was |-> IF ClearsInARow = 0 THEN Len(canvas) ELSE event.was]
                 ELSE NoEvent)
    /\ UNCHANGED <<HandsCls, CameraCls, lifecycle, thenQueued, hands, camera, myP5,
                   errorLog, containerRef, handResults, currentColorIndex,
                   colorIndexRef, size, harness, pointer, cycleClicks>>
KeyPressed(key) ==
    /\ myP5 = "running"
    /\ key = " " => ClearsInARow < MaxClears
    /\ canvas' = (IF key = " " THEN <<>> ELSE canvas)
    /\ frame' = NoFrame
    /\ event' = (IF key = " "
                 THEN [kind |-> "clear", n |-> ClearsInARow + 1,
                       was |-> IF ClearsInARow = 0 THEN Len(canvas) ELSE event.was]
                 ELSE NoEvent)
    /\ UNCHANGED <<HandsCls, CameraCls, lifecycle, thenQueued, hands, camera, myP5,
                   errorLog, containerRef, handResults, currentColorIndex,
                   colorIndexRef, size, harness, pointer, cycleClicks>>

Next ==
    \/ Effect
    \/ Then
    \/ Cleanup
    \/ \E results \in LandmarkUpdates : OnResults(results)
    \/ Draw
    \/ \E s \in WindowSizes : WindowResized(s)
    \/ MousePressed(-1)
    \/ SyncColorRef
    \/ \E key \in Keys : KeyPressed(key)

Spec == Init /\ [][Next]_vars

----------------------------------------------------------------------------
(* The intensity mapping on its own: two hand sizes are mapped *)

HandSizeInputs ==
    {Rat(k * 25, 2) : k \in 0..MaxHandK}
    \cup {Rat(499, 10), Rat(501, 10), Rat(2999, 10), Rat(3001, 10)}

InitMap ==
    /\ HandsCls = TRUE
    /\ CameraCls = TRUE
    /\ lifecycle = "rendered"
    /\ thenQueued = FALSE
    /\ hands = "undefined"
    /\ camera = "undefined"
    /\ myP5 = "undefined"
    /\ errorLog = 0
    /\ containerRef = TRUE
    /\ handResults = NullResults
    /\ currentColorIndex = 0
    /\ colorIndexRef = 0
    /\ size = <<0, 0>>
    /\ canvas = <<>>
    /\ frame = NoFrame
    /\ pointer = -1
    /\ event = NoEvent
    /\ cycleClicks = -1
    /\ handSizes \in HandSizeInputs \X HandSizeInputs
    /\ intensity = <<>>
    /\ pinchTips = <<>>
    /\ emissionPoint = <<>>

MapSizes ==
    /\ intensity = <<>>
    /\ intensity' = <<Intensity(handSizes[1]), Intensity(handSizes[2])>>
    /\ UNCHANGED appVars
    /\ UNCHANGED <<handSizes, pinchTips, emissionPoint>>

NextMap == MapSizes

SpecMap == InitMap /\ [][NextMap]_vars

(***************************************************************************)
(* The palette on its own: the component with its pointer events (presses *)
(* on and off the swatches, swatch clicks) and no landmark delivery, the  *)
(* click-cycle events counted from the mount.                             *)
(***************************************************************************)
InitPalette ==
    /\ HandsCls = TRUE
    /\ CameraCls = TRUE
    /\ lifecycle = "rendered"
    /\ thenQueued = FALSE
    /\ hands = "undefined"
    /\ camera = "undefined"
    /\ myP5 = "undefined"
    /\ errorLog = 0
    /\ containerRef = TRUE
    /\ handResults = NullResults
    /\ currentColorIndex = 0
    /\ colorIndexRef = 0
    /\ size = <<0, 0>>
    /\ canvas = <<>>
    /\ frame = NoFrame
    /\ pointer = -1
    /\ event = NoEvent
    /\ cycleClicks = 0
    /\ handSizes = <<>>
    /\ intensity = <<>>
    /\ pinchTips = <<>>
    /\ emissionPoint = <<>>

NextPalette ==
    \/ Effect
    \/ Then
    \/ Cleanup
    \/ Draw
    \/ \E target \in {-1} \cup Swatches : MousePressed(target)
    \/ SwatchClick
    \/ SyncColorRef

SpecPalette == InitPalette /\ [][NextPalette]_vars

(***************************************************************************)
(* The emission point on its own: sprayX and sprayY of draw applied to    *)
(* pairs of fingertips on a grid of normalized positions.                 *)
(***************************************************************************)
\* normalized fingertip coordinates, in hundredths
TipCoords == {0, 10, 20, 30, 50, 100}
TipInputs == {Pt(xc, yc) : xc \in TipCoords, yc \in TipCoords}

InitPoint ==
    /\ HandsCls = TRUE
    /\ CameraCls = TRUE
    /\ lifecycle = "rendered"
    /\ thenQueued = FALSE
    /\ hands = "undefined"
    /\ camera = "undefined"
    /\ myP5 = "undefined"
    /\ errorLog = 0
    /\ containerRef = TRUE
    /\ handResults = NullResults
    /\ currentColorIndex = 0
    /\ colorIndexRef = 0
    /\ size = <<0, 0>>
    /\ canvas = <<>>
    /\ frame = NoFrame
    /\ pointer = -1
    /\ event = NoEvent
    /\ cycleClicks = -1
    /\ handSizes = <<>>
    /\ intensity = <<>>
    /\ pinchTips \in {<<t, i, s[1], s[2]>> : t \in TipInputs, i \in TipInputs,
                                             s \in WindowSizes}
    /\ emissionPoint = <<>>

\* const sprayX = (1 - (thumbTip.x + indexTip.x) / 2) * p.width;
\* const sprayY = ((thumbTip.y + indexTip.y) / 2) * p.height;
LocatePoint ==
    /\ emissionPoint = <<>>
    /\ emissionPoint' = <<SprayX(pinchTips[1], pinchTips[2], pinchTips[3]),
                          SprayY(pinchTips[1], pinchTips[2], pinchTips[4])>>
    /\ UNCHANGED appVars
    /\ UNCHANGED <<handSizes, intensity, pinchTips>>

NextPoint == LocatePoint

SpecPoint == InitPoint /\ [][NextPoint]_vars

----------------------------------------------------------------------------
(* Properties *)

IsDot(m) == m.kind = "dot"
IsParticle(m) == m.kind = "particle"
RingsOf(calls) == SelectSeq(calls, IsRing)
DotsOf(calls) == SelectSeq(calls, IsDot)
ParticlesOf(calls) == SelectSeq(calls, IsParticle)

IsPrefix(a, b) == Len(a) <= Len(b) /\ SubSeq(b, 1, Len(a)) = a

\* the hand p.draw reads, and the squares of its two screen distances
TrackedHand == handResults.multiHandLandmarks[1]
SquaredDistance(a, b) ==
    LET dx == RMul(RSub(a.x, b.x), Num(size[1]))
        dy == RMul(RSub(a.y, b.y), Num(size[2]))
    IN  RAdd(RMul(dx, dx), RMul(dy, dy))
PinchSquared == SquaredDistance(TrackedHand[4], TrackedHand[8])
TrackedParticleCount ==
    Intensity(ScreenDistance(TrackedHand[0], TrackedHand[9], size[1], size[2])).particleCount

\* the step just taken was a frame that sprayed
Sprayed == frame.ran /\ Len(ParticlesOf(frame.calls)) > 0

\* C1 as stated: once the stored result holds a hand, the system never returns
\* to NoHand, the state in which p.draw draws no cursor, whatever is delivered.
C1_NeverBackToNoHand == [][HasHand(handResults) => HasHand(handResults')]_vars

\* C1 amended: the stored result changes only when the tracker delivers an
\* update (no timeout, no frame or input event resets it), and a frame draws the
\* cursor exactly when the most recently delivered update holds a hand; an
\* update without landmarks therefore brings NoHand back.
C1_LastDeliveryPersists ==
    [][/\ handResults' # handResults =>
            /\ hands = "open"
            /\ camera = "started"
            /\ handResults' \in LandmarkUpdates
       /\ frame'.ran =>
            /\ handResults' = handResults
            /\ HasHand(handResults) <=> Len(RingsOf(frame'.calls)) = 1
            /\ ~HasHand(handResults) => frame'.calls = <<>>]_vars

\* a second frame in a row painted from the same stored hand
C1_Witness ==
    /\ frame.ran
    /\ HasHand(handResults)
    /\ PaintedFrames(canvas) = 2
    /\ Len(frame.calls) > 0

\* C2 as stated: after an initialisation that found Hands or Camera missing,
\* no render loop exists and no frame runs.
C2_NoLoopAfterFailedInit == errorLog > 0 => (myP5 = "undefined" /\ ~frame.ran)

\* C2 amended: when Hands or Camera is missing the failure is logged once and
\* neither tracker nor camera is created, but the render loop is still started
\* by the .then callback; its frames draw nothing, as no result is ever delivered.
C2_FailedInitDegrades ==
    (lifecycle # "rendered" /\ (~HandsCls \/ ~CameraCls)) =>
        /\ errorLog = 1
        /\ hands = "undefined"
        /\ camera = "undefined"
        /\ handResults = NullResults
        /\ canvas = <<>>
        /\ frame.calls = <<>>
        /\ (lifecycle = "mounted" /\ ~thenQueued) => myP5 = "running"

C2_Witness == errorLog = 1 /\ myP5 = "running" /\ frame.ran

\* C3: after the effect's cleanup has run, no render-loop instance is alive.
C3_NoLoopAfterCleanup == lifecycle = "unmounted" => myP5 # "running"

\* C4: after the effect's cleanup, no open tracker and no started camera is held.
C4_CleanupReleases == lifecycle = "unmounted" => (hands # "open" /\ camera # "started")

C4_Witness == lifecycle = "unmounted" /\ hands = "closed" /\ camera = "stopped"

\* C5 as stated: a frame that sprays draws round(particleCount) particle circles.
C5_RoundedCount ==
    Sprayed => Len(ParticlesOf(frame.calls)) = RRound(TrackedParticleCount)

\* C5 amended: a frame that sprays draws ceil(particleCount) particle circles,
\* the least integer not below particleCount (the loop runs while i < particleCount).
C5_CeilingCount ==
    (frame.ran /\ HasHand(handResults) /\ RLt(PinchSquared, Num(3600))) =>
        Len(ParticlesOf(frame.calls)) = RCeil(TrackedParticleCount)

\* a spraying frame whose particleCount is fractional: 6.4 gives 7 circles
C5_Witness ==
    /\ Sprayed
    /\ TrackedParticleCount = Rat(32, 5)
    /\ Len(ParticlesOf(frame.calls)) = 7

\* C6: frames, landmark updates and colour changes only ever add to the canvas:
\* what was painted stays, in place, until a clear or a resize.
C6_Additive ==
    [][(\/ Draw
        \/ \E results \in LandmarkUpdates : OnResults(results)
        \/ MousePressed(-1)
        \/ SyncColorRef)
       => IsPrefix(canvas, canvas')]_vars

\* a spraying frame painted over an earlier painted frame
C6_Witness ==
    /\ Sprayed
    /\ PaintedFrames(canvas) = 2
    /\ Len(canvas) > Len(frame.calls)

SaturatedHigh ==
    [factor |-> Num(1), spreadRadius |-> Num(60), particleCount |-> Num(40),
     particleSizeBase |-> Num(6), opacity |-> Num(255)]
SaturatedLow ==
    [factor |-> Num(0), spreadRadius |-> Num(10), particleCount |-> Num(5),
     particleSizeBase |-> Num(2), opacity |-> Num(50)]

\* C7: handSize <= 50 maps to factor 1 and (60, 40, 6, 255); handSize >= 300
\* maps to factor 0 and (10, 5, 2, 50).
C7_Saturation ==
    intensity # <<>> =>
        \A i \in 1..2 :
            /\ RLe(handSizes[i], Num(50)) => intensity[i] = SaturatedHigh
            /\ RLe(Num(300), handSizes[i]) => intensity[i] = SaturatedLow

C7_Witness ==
    /\ intensity # <<>>
    /\ RLt(handSizes[1], Num(50))
    /\ RLt(Num(300), handSizes[2])

Between(lo, v, hi) == RLe(Num(lo), v) /\ RLe(v, Num(hi))

\* C8: for every handSize >= 0 the mapped parameters stay inside their ranges.
C8_InRange ==
    intensity # <<>> =>
        \A i \in 1..2 :
            /\ Between(0, intensity[i].factor, 1)
            /\ Between(10, intensity[i].spreadRadius, 60)
            /\ Between(5, intensity[i].particleCount, 40)
            /\ Between(2, intensity[i].particleSizeBase, 6)
            /\ Between(50, intensity[i].opacity, 255)

C8_Witness ==
    /\ intensity # <<>>
    /\ handSizes[1] = Num(0)
    /\ handSizes[2] = Num(400)

\* C9: within [50, 300] a smaller hand size never maps to a smaller spread,
\* count, particle size or opacity.
C9_Monotone ==
    (/\ intensity # <<>>
     /\ Between(50, handSizes[1], 300)
     /\ Between(50, handSizes[2], 300)
     /\ RLt(handSizes[1], handSizes[2])) =>
        /\ RLe(intensity[2].spreadRadius, intensity[1].spreadRadius)
        /\ RLe(intensity[2].particleCount, intensity[1].particleCount)
        /\ RLe(intensity[2].particleSizeBase, intensity[1].particleSizeBase)
        /\ RLe(intensity[2].opacity, intensity[1].opacity)

C9_Witness ==
    /\ intensity # <<>>
    /\ handSizes[1] = Num(100)
    /\ handSizes[2] = Rat(225, 2)
    /\ RLt(intensity[2].spreadRadius, intensity[1].spreadRadius)

\* C10: a frame with a tracked hand draws the cursor ring, and draws the pinch
\* dot and particles exactly when the thumb-index screen distance is below 60;
\* at 60 or more the ring is all it draws.
C10_StrictThreshold ==
    (frame.ran /\ HasHand(handResults)) =>
        /\ IsRing(frame.calls[1])
        /\ Len(RingsOf(frame.calls)) = 1
        /\ RLt(PinchSquared, Num(3600)) <=> Len(DotsOf(frame.calls)) = 1
        /\ RLt(PinchSquared, Num(3600)) <=> Len(ParticlesOf(frame.calls)) > 0
        /\ RLe(Num(3600), PinchSquared) => Len(frame.calls) = 1

\* a frame at a pinch distance of exactly 60
C10_Witness ==
    /\ frame.ran
    /\ HasHand(handResults)
    /\ PinchSquared = Num(3600)
    /\ Len(frame.calls) = 1

\* C11: the emission point is the midpoint of the two fingertips, mirrored
\* horizontally: its x and the unmirrored midpoint's x add up to the canvas
\* width, and its y is the mean of the tips' y times the canvas height.
C11_EmissionPoint ==
    emissionPoint # <<>> =>
        LET thumbTip == pinchTips[1]
            indexTip == pinchTips[2]
            width    == pinchTips[3]
            height   == pinchTips[4]
        IN  /\ RAdd(RMul(emissionPoint[1], Num(2)),
                    RMul(RAdd(thumbTip.x, indexTip.x), Num(width)))
                 = Num(2 * width)
            /\ RMul(emissionPoint[2], Num(2))
                 = RMul(RAdd(thumbTip.y, indexTip.y), Num(height))

\* both tips at (0.2, 0.5) on a 1000x800 canvas emit at (800, 400)
C11_Witness ==
    /\ pinchTips = <<Pt(20, 50), Pt(20, 50), 1000, 800>>
    /\ emissionPoint = <<Num(800), Num(400)>>

\* C12: starting from colour index 0, after N click-cycle events of the
\* mounted component with no swatch selected in between, the current colour
\* index is N mod 7.
C12_CycleModulo ==
    (lifecycle = "mounted" /\ cycleClicks >= 0) =>
        currentColorIndex = cycleClicks % 7

\* nine presses have wrapped around the palette once and stand on index 2
C12_Witness ==
    /\ lifecycle = "mounted"
    /\ cycleClicks = 9
    /\ currentColorIndex = 2

\* C13: clear is idempotent: a Space press leaves the canvas fully
\* transparent, and a Space press that follows a Space press at once leaves
\* the canvas as the first one left it.
C13_ClearIdempotent ==
    [][event'.kind = "clear" =>
           /\ canvas' = <<>>
           /\ event.kind = "clear" => canvas' = canvas]_vars

\* a painted canvas, cleared twice in a row
C13_Witness ==
    /\ event.kind = "clear"
    /\ event.n = 2
    /\ event.was > 0
    /\ canvas = <<>>

\* C14: the gesture slot is last-write-wins with no queue: a delivery
\* replaces the stored result by the delivered one, a frame draws from the
\* result stored when it runs and leaves it stored, and a frame that follows
\* a frame with no delivery between them draws the same calls again.
C14_LastWriteWins ==
    [][/\ \A results \in LandmarkUpdates :
              OnResults(results) => handResults' = results
       /\ frame'.ran =>
              /\ frame'.calls = DrawCalls(handResults, size'[1], size'[2], colorIndexRef)
              /\ handResults' = handResults
       /\ (frame.ran /\ frame'.ran /\ size' = size) =>
              frame'.calls = frame.calls]_vars

\* a frame that draws nothing over a painted canvas: the delivery without a
\* hand has replaced the hand an earlier frame drew
C14_Witness ==
    /\ frame.ran
    /\ frame.calls = <<>>
    /\ canvas # <<>>
    /\ ~handResults.isNull
    /\ ~HasHand(handResults)

\* C15: as long as no landmark update has been delivered, the canvas is
\* untouched: every frame draws no ring, no dot and no particle.
C15_NothingBeforeFirstDelivery ==
    handResults.isNull => (canvas = <<>> /\ frame.calls = <<>>)

\* a frame of the running sketch of an initialised tracker, before any delivery
C15_Witness ==
    /\ frame.ran
    /\ handResults.isNull
    /\ hands = "open"
    /\ camera = "started"

\* the opacity mapped from the size of the hand p.draw reads
TrackedOpacity ==
    Intensity(ScreenDistance(TrackedHand[0], TrackedHand[9], size[1], size[2])).opacity

\* C16 as stated: in every frame that sprays, the particles and the pinch dot
\* are drawn in the palette colour at the current colour index, the particles
\* with the mapped opacity as alpha.
C16_CurrentColour ==
    Sprayed =>
        \A i \in 1..Len(frame.calls) :
            LET m == frame.calls[i]
            IN  /\ (IsParticle(m) \/ IsDot(m)) => m.col = PALETTE[currentColorIndex + 1]
                /\ IsParticle(m) => m.alpha = TrackedOpacity

\* C17: a click on swatch i leaves the current colour index equal to i,
\* whatever the index was, although the press of that click went through
\* p.mousePressed first and advanced the index by one.
C17_SwatchSelects ==
    event.kind = "select" => currentColorIndex = event.n

\* swatch 0 selected from index 3: the press moved the index to 4, which the
\* ref still holds, and the click set it to 0
C17_Witness ==
    /\ event.kind = "select"
    /\ event.n = 0
    /\ currentColorIndex = 0
    /\ colorIndexRef = 4

\* C18: a frame leaves the stored landmark result, the colour index and its
\* ref as they were, and a delivery leaves the canvas, the colour index and
\* its ref as they were.
C18_SingleWriter ==
    [][/\ frame'.ran =>
              /\ handResults' = handResults
              /\ currentColorIndex' = currentColorIndex
              /\ colorIndexRef' = colorIndexRef
       /\ \A results \in LandmarkUpdates :
              OnResults(results) =>
                  /\ canvas' = canvas
                  /\ currentColorIndex' = currentColorIndex
                  /\ colorIndexRef' = colorIndexRef
       /\ handResults' # handResults =>
              /\ canvas' = canvas
              /\ ~frame'.ran]_vars

\* a delivery without a hand over a canvas that earlier frames painted, the
\* paint still there
C18_Witness ==
    /\ ~frame.ran
    /\ canvas # <<>>
    /\ ~handResults.isNull
    /\ ~HasHand(handResults)
    /\ myP5 = "running"

\* C19: the current colour index and the ref the frames read are always in
\* 0..6, so PALETTE[colorIndexRef.current] is always one of the seven colours.
C19_IndexInRange ==
    /\ currentColorIndex \in 0..6
    /\ colorIndexRef \in 0..6
    /\ Len(PALETTE) = 7
    /\ colorIndexRef + 1 \in DOMAIN PALETTE

\* after a swatch selection, a press on index 6 has wrapped to 0 while the
\* ref still holds 6
C19_Witness ==
    /\ cycleClicks = -1
    /\ pointer = -1
    /\ currentColorIndex = 0
    /\ colorIndexRef = 6

====
